---- MODULE Spec2Model ----
(***************************************************************************)
(* Cache-coherence protocol of the indexing core.                          *)
(*                                                                         *)
(*   server/bleep/src/cache.rs         FreshValue, FileCache, ChunkCache   *)
(*   server/bleep/src/indexes/file.rs  File::index_repository, worker      *)
(*                                                                         *)
(* Spec      : one ChunkCache at a time over the relational chunk_cache    *)
(*             table and the vector store (for_file, update_or_embed,      *)
(*             commit with its three phases).                              *)
(* SpecIndex : passes of File::index_repository over a working copy, the   *)
(*             file-cache snapshot and the full-text writer.               *)
(* SpecConc  : threads inside update_or_embed on one ChunkCache, step by   *)
(*             step, with the map entry and the list locks they hold.      *)
(* SpecFile  : FileCache retrieve, persist and delete over the tables      *)
(*             file_cache and chunk_cache.                                 *)
(***************************************************************************)
EXTENDS Integers, Sequences, FiniteSets, Bags, TLC

\* ------------------------------------------------------------------ bounds
MaxPasses == 3        \* chunk caches built, one after the other
MaxObserves == 3      \* update_or_embed calls, over all chunk caches
MaxIndexPasses == 2   \* passes of index_repository
MaxFileOps == 3       \* FileCache operations called

\* ------------------------------------------------------------- input sets
Repos == {"r1", "r2"}
Paths == {"a", "b", "x"}        \* "x" resolves to a place outside the repository
Contents == {"c1", "c2"}
SCHEMA_VERSION == "v"
FileKeys == {"f1"}
Chunks == {"d1", "d2"}
BranchLists == {<<"main">>, <<"main", "dev">>}

VARIABLES
    \* --- stores shared by every chunk cache
    db,              \* committed rows of chunk_cache, in rowid order
    points,          \* vector store: point id -> branches list of its payload
    \* --- the fields of the live ChunkCache
    reporef, file_cache_key,
    cache,           \* chunk id -> FreshValue(branches hash)
    update,          \* (branches list, branches hash) -> ids
    new,             \* pending vector points
    new_sql,         \* pending relational inserts
    \* --- control state of the caller and of commit
    pc,              \* "idle", "open", "A", "B", "C", "T", "done"
    tx,              \* rows as seen inside the open transaction
    frame,           \* locals of commit and commit_branch_updates
    result,          \* what the last call returned
    \* --- observation of the run
    log,             \* writes issued by the running commit, in order
    embeds,          \* chunk ids handed to the embedder by this cache
    call,            \* the last update_or_embed call
    db0,             \* chunk_cache when the cache was built
    loaded,          \* whether the construction query returned rows
    hist,            \* what the stores were like when the cache was built
    passes, nobs,
    \* --- index_repository
    disk,            \* working copy: path -> content, or absent
    file_cache,      \* snapshot: path -> FreshValue(content hash)
    index,           \* documents of the full-text writer, in write order
    saved,           \* file cache as last saved: path -> content hash
    ipc,             \* "idle", "walk", "sweep", "save"
    todo,            \* walked files no worker has taken yet
    writing,         \* files whose worker has passed the cache entry
    snap0,           \* snapshot as loaded at pass start
    seen,            \* path -> content read by its worker in this pass
    added,           \* add_document calls of this pass (paths, in order)
    deleted,         \* delete_term calls of this pass
    errs,            \* files whose worker returned Err in this pass
    iresult,         \* what index_repository returned
    ioerr,           \* the call of index_repository whose `?` returned, or "none"
    ipasses,
    \* --- threads inside update_or_embed on the live ChunkCache
    thr,             \* thread -> its place in the call, its arguments, its result
    \* --- FileCache over the tables file_cache and chunk_cache
    files,           \* committed rows of file_cache
    ftx,             \* both tables as seen inside the open transaction
    fop,             \* the running file-cache operation and its locals
    fret,            \* the last file-cache operation that returned
    f0,              \* both tables when the running or last operation was called
    fops

chunkVars == <<db, points, reporef, file_cache_key, cache, update, new, new_sql,
               pc, tx, frame, result, log, embeds, call, db0, loaded, hist, passes, nobs>>
indexVars == <<disk, file_cache, index, saved, ipc, todo, writing, snap0, seen,
               added, deleted, errs, iresult, ioerr, ipasses>>
concVars == <<thr>>
fileVars == <<files, ftx, fop, fret, f0, fops>>
\* chunkVars but the fields update_or_embed writes
callerVars == <<db, points, reporef, file_cache_key, pc, tx, frame, result, log, call,
                db0, loaded, hist, passes, nobs>>
\* chunkVars but the chunk_cache table
chunkRest == <<points, reporef, file_cache_key, cache, update, new, new_sql,
               pc, tx, frame, result, log, embeds, call, db0, loaded, hist, passes, nobs>>
vars == <<chunkVars, indexVars, concVars, fileVars>>

\* ----------------------------------------------------------- FreshValue
\* FreshValue::stale: what deserialising a stored value yields.
stale(value) == [fresh |-> FALSE, value |-> value]
\* From<T> for FreshValue<T>: a value built in memory is fresh.
fresh_from(value) == [fresh |-> TRUE, value |-> value]

\* A map with one more (or one replaced) binding.
Put(m, k, v) == [x \in DOMAIN m \cup {k} |-> IF x = k THEN v ELSE m[x]]
Empty == [x \in {} |-> x]

\* ------------------------------------------------------------ content keys
\* payload.branches.join("\n"): the separator goes between the names.
RECURSIVE Join(_)
Join(branches) ==
    IF Len(branches) = 0 THEN <<>>
    ELSE IF Len(branches) = 1 THEN <<branches[1]>>
    ELSE <<branches[1], "\n">> \o Join(Tail(branches))

\* blake3 over the joined list: equal digests only for equal input.
branches_hash(branches) == <<"blake3", Join(branches)>>

\* ChunkCache::cache_key: the digest of file_cache_key followed by the data.
cache_key(fk, data) == <<"uuid", fk, data>>

\* --------------------------------------------------------- chunk_cache SQL
\* The table is a bag of rows: it declares no key the statements below rely on.
Row(p, fk, bh, repo) ==
    [chunk_hash |-> p, file_hash |-> fk, branches |-> bh, repo_ref |-> repo]

\* The rows of t among `rows`, each with its copies.
Restrict(t, rows) == [r \in rows \cap DOMAIN t |-> t[r]]

\* SELECT chunk_hash, branches FROM chunk_cache WHERE file_hash = ?
SelectForFile(t, fk) == Restrict(t, {r \in DOMAIN t : r.file_hash = fk})

\* UPDATE chunk_cache SET branches = ? WHERE chunk_hash = ?
SqlUpdate(t, bh, p) ==
    BagOfAll(LAMBDA r : IF r.chunk_hash = p THEN [r EXCEPT !.branches = bh] ELSE r, t)

RECURSIVE SqlUpdateAll(_, _, _)
SqlUpdateAll(t, bh, ps) ==
    IF ps = <<>> THEN t ELSE SqlUpdateAll(SqlUpdate(t, bh, Head(ps)), bh, Tail(ps))

\* DELETE FROM chunk_cache WHERE chunk_hash = ? AND file_hash = ?
SqlDelete(t, p, fk) ==
    Restrict(t, {r \in DOMAIN t : ~(r.chunk_hash = p /\ r.file_hash = fk)})

\* the DELETEs of commit_deletes, one per id of to_delete
SqlDeleteAll(t, ids, fk) ==
    Restrict(t, {r \in DOMAIN t : \A p \in ids : r \in DOMAIN SqlDelete(t, p, fk)})

\* INSERT INTO chunk_cache (chunk_hash, file_hash, branches, repo_ref)
SqlInsert(t, p, fk, bh, repo) == t (+) SetToBag({Row(p, fk, bh, repo)})

RECURSIVE SqlInsertAll(_, _, _, _)
SqlInsertAll(t, pairs, fk, repo) ==
    IF pairs = <<>> THEN t
    ELSE SqlInsertAll(SqlInsert(t, Head(pairs)[1], fk, Head(pairs)[2], repo),
                      Tail(pairs), fk, repo)

\* ------------------------------------------------------------ vector store
Range(s) == {s[i] : i \in DOMAIN s}

\* upsert_points: every point of the batch is stored, a later one over an earlier.
RECURSIVE Upsert(_, _)
Upsert(pts, batch) ==
    IF batch = <<>> THEN pts
    ELSE Upsert(Put(pts, Head(batch).id, Head(batch).branches), Tail(batch))

\* delete_points
DeletePoints(pts, ids) == [x \in DOMAIN pts \ ids |-> pts[x]]

\* set_payload: the "branches" key of the stored points among ids.
SetPayload(pts, ids, branches) ==
    [x \in DOMAIN pts |-> IF x \in ids THEN branches ELSE pts[x]]

Event(op, ids, branches, n, ok) ==
    [op |-> op, ids |-> ids, branches |-> branches, n |-> n, ok |-> ok]

\* call.embed_ok is what the embedder answers when it is run; a call that
\* does not run it records TRUE.
NoCall == [id |-> <<>>, branches |-> <<>>, embed_ok |-> TRUE, ret |-> "none"]
NoFrame == [update_size |-> 0, delete_size |-> 0, new_size |-> 0,
            todo |-> {}, futs |-> {}, failed |-> FALSE, touched |-> {}]

\* commit's contract ("the SQLite operations mirror qdrant changes 1:1"): the
\* two stores hold the same chunk ids, and the branches list of each point is
\* the one whose hash its rows carry.
Agree(t, pts) ==
    /\ {r.chunk_hash : r \in DOMAIN t} = DOMAIN pts
    /\ \A r \in DOMAIN t : branches_hash(pts[r.chunk_hash]) = r.branches

\* A vector-store call of the logged commit was applied.
Applied(events) ==
    \E i \in DOMAIN events :
        events[i].ok /\ events[i].op \in {"set_payload", "delete_points", "upsert_points"}

\* The ids a cache was shown: update_or_embed leaves their cells fresh.
Observed(cells) == {p \in DOMAIN cells : cells[p].fresh}

\* hist.agree0: the stores agreed when the cache was built; hist.prior: the
\* cache before this one was built from the rows of agreeing stores and its
\* commit failed after a vector-store call of its own had been applied; hist.ids:
\* the ids that cache had been shown.
NoHist == [agree0 |-> TRUE, prior |-> FALSE, ids |-> {}]

\* ------------------------------------------------------------------ Init
\* No ChunkCache built yet.
InitNoCache ==
    /\ reporef = "r1" /\ file_cache_key = "f1"
    /\ cache = Empty /\ update = Empty /\ new = <<>> /\ new_sql = <<>>
    /\ pc = "idle" /\ tx = EmptyBag /\ frame = NoFrame /\ result = <<"none">>
    /\ log = <<>> /\ embeds = <<>> /\ call = NoCall /\ db0 = EmptyBag /\ loaded = TRUE
    /\ hist = NoHist
    /\ passes = 0 /\ nobs = 0

InitChunk == db = EmptyBag /\ points = Empty /\ InitNoCache

\* -------------------------------------------------- ChunkCache::for_file
\* The maps the construction loop can build from the rows: scc's insert keeps
\* the first value of a key, and the query states no order.
LoadChoices(rows) ==
    LET ids == {r.chunk_hash : r \in DOMAIN rows}
    IN  {[p \in ids |-> stale(f[p])] :
            f \in {g \in [ids -> {r.branches : r \in DOMAIN rows}] :
                     \A p \in ids : \E r \in DOMAIN rows :
                        r.chunk_hash = p /\ r.branches = g[p]}}

\* rows.into_iter().flatten(): a failed query yields no row at all.
Flatten(ok, rows) == IF ok THEN rows ELSE EmptyBag

ForFile(repo, fk, query_ok) ==
    /\ pc \in {"idle", "done"}
    /\ passes < MaxPasses
    /\ \E c \in LoadChoices(Flatten(query_ok, SelectForFile(db, fk))) : cache' = c
    /\ reporef' = repo /\ file_cache_key' = fk
    /\ update' = Empty /\ new' = <<>> /\ new_sql' = <<>>
    /\ pc' = "open" /\ frame' = NoFrame /\ result' = <<"none">>
    /\ log' = <<>> /\ embeds' = <<>> /\ call' = NoCall
    /\ db0' = db /\ loaded' = query_ok
    /\ LET prior == /\ pc = "done" /\ result = <<"err">>
                    /\ hist.agree0 /\ loaded /\ Applied(log)
       IN  hist' = [agree0 |-> Agree(db, points), prior |-> prior,
                    ids |-> IF prior THEN Observed(cache) ELSE {}]
    /\ passes' = passes + 1
    /\ UNCHANGED <<db, points, tx, nobs, indexVars, concVars, fileVars>>

\* ---------------------------------------- ChunkCache::update_or_embed
\* The vacant arm: the relational pair is pushed, then the point is built, and
\* building it runs the embedder; `?` leaves before the point is pushed and
\* before the cell is inserted.
Vacant(id, bh, branches, embed_ok) ==
    /\ new_sql' = Append(new_sql, <<id, bh>>)
    /\ embeds' = Append(embeds, id)
    /\ IF embed_ok
         THEN /\ new' = Append(new, [id |-> id, branches |-> branches])
              /\ cache' = Put(cache, id, fresh_from(bh))
         ELSE UNCHANGED <<new, cache>>
    /\ UNCHANGED update

OccupiedReplacesOnly(id, bh, branches) ==
    /\ cache' = Put(cache, id, fresh_from(bh))
    /\ UNCHANGED <<update, new, new_sql, embeds>>

\* The occupied arm: a changed branches hash files the id under its bucket;
\* the cell is replaced by a fresh one either way.
Occupied(id, bh, branches) ==
    /\ IF cache[id].value # bh
         THEN LET k == <<branches, bh>>
                  old == IF k \in DOMAIN update THEN update[k] ELSE <<>>
              IN  update' = Put(update, k, Append(old, id))
         ELSE UNCHANGED update
    /\ cache' = Put(cache, id, fresh_from(bh))
    /\ UNCHANGED <<new, new_sql, embeds>>

UpdateOrEmbed(data, branches, embed_ok) ==
    /\ pc = "open"
    /\ nobs < MaxObserves
    /\ LET id == cache_key(file_cache_key, data)
           bh == branches_hash(branches)
       IN  /\ IF id \in DOMAIN cache
                THEN Occupied(id, bh, branches)
                ELSE Vacant(id, bh, branches, embed_ok)
           /\ call' = [id |-> id, branches |-> branches,
                       embed_ok |-> (id \in DOMAIN cache \/ embed_ok),
                       ret |-> IF id \in DOMAIN cache \/ embed_ok THEN "ok" ELSE "err"]
    /\ nobs' = nobs + 1
    /\ UNCHANGED <<db, points, reporef, file_cache_key, pc, tx, frame, result, log,
                   db0, loaded, hist, passes, indexVars, concVars, fileVars>>

\* ------------------------------------------------------ ChunkCache::commit
\* Dropping the transaction on an early return rolls it back: the committed
\* rows stay as they were.
RolledBackPartly(committed, pending) == pending

RolledBack(committed, pending) == committed

Abort ==
    /\ db' = RolledBack(db, tx)
    /\ tx' = EmptyBag
    /\ pc' = "done"
    /\ result' = <<"err">>

\* commit runs commit_branch_updates ("A"), commit_deletes ("B"),
\* commit_inserts ("C") and then tx.commit() ("T").
AfterPhaseInsertsFirst(phase) ==
    CASE phase = "A" -> "C" [] phase = "C" -> "B" [] phase = "B" -> "T"

AfterPhase(phase) ==
    CASE phase = "A" -> "B" [] phase = "B" -> "C" [] phase = "C" -> "T"

\* self.sql.begin()
CommitBegin(ok) ==
    /\ pc = "open"
    /\ IF ok
         THEN /\ tx' = db
              /\ pc' = "A"
              /\ frame' = [NoFrame EXCEPT !.todo = DOMAIN update]
              /\ UNCHANGED <<db, result>>
         ELSE Abort /\ UNCHANGED frame
    /\ call' = NoCall
    /\ UNCHANGED <<points, reporef, file_cache_key, cache, update, new, new_sql, log,
                   embeds, db0, loaded, hist, passes, nobs, indexVars, concVars, fileVars>>

\* commit_branch_updates, one turn of the loop over the buckets: the UPDATEs of
\* the bucket, and its set_payload future pushed (not yet polled).  The map
\* hands the buckets out in no stated order.
BranchUpdateSql(k, ok) ==
    /\ pc = "A"
    /\ k \in frame.todo
    /\ IF ok
         THEN /\ tx' = SqlUpdateAll(tx, k[2], update[k])
              /\ frame' = [frame EXCEPT
                    !.update_size = @ + Len(update[k]),
                    !.todo = @ \ {k},
                    !.futs = @ \cup {k},
                    !.touched = @ \cup Range(update[k])]
              /\ log' = Append(log, Event("UPDATE", update[k], k[1],
                            BagCardinality(Restrict(tx, {r \in DOMAIN tx :
                                r.chunk_hash \in Range(update[k]) \ frame.touched})),
                            TRUE))
              /\ UNCHANGED <<db, pc, result>>
         ELSE Abort /\ UNCHANGED <<frame, log>>
    /\ UNCHANGED <<points, reporef, file_cache_key, cache, update, new, new_sql,
                   embeds, call, db0, loaded, hist, passes, nobs, indexVars, concVars, fileVars>>

\* One of the joined set_payload futures completes, in any order; join_all
\* waits for every one of them, failed or not.
SetPayloadRpc(k, ok) ==
    /\ pc = "A"
    /\ frame.todo = {}
    /\ k \in frame.futs
    /\ points' = IF ok THEN SetPayload(points, Range(update[k]), k[1]) ELSE points
    /\ frame' = [frame EXCEPT !.futs = @ \ {k}, !.failed = @ \/ ~ok]
    /\ log' = Append(log, Event("set_payload", update[k], k[1], 0, ok))
    /\ UNCHANGED <<db, reporef, file_cache_key, cache, update, new, new_sql, pc, tx,
                   result, embeds, call, db0, loaded, hist, passes, nobs, indexVars, concVars, fileVars>>

\* join_all(...).collect::<Result<..>>()?
JoinAll ==
    /\ pc = "A"
    /\ frame.todo = {}
    /\ frame.futs = {}
    /\ IF frame.failed
         THEN Abort
         ELSE pc' = AfterPhase("A") /\ UNCHANGED <<db, tx, result>>
    /\ UNCHANGED <<points, reporef, file_cache_key, cache, update, new, new_sql, frame,
                   log, embeds, call, db0, loaded, hist, passes, nobs, indexVars, concVars, fileVars>>

\* `if !to_delete.is_empty()`, `if !new.is_empty()`: the vector store is
\* called for a batch of n elements only when it holds one.
SentAlways(n) == TRUE

Sent(n) == n > 0

\* commit_deletes: the cells left stale, their DELETEs, then one delete_points.
ToDelete == {p \in DOMAIN cache : ~cache[p].fresh}

CommitDeletes(outcome) ==
    /\ pc = "B"
    /\ outcome = "sql" => ToDelete # {}
    /\ outcome = "rpc" => Sent(Cardinality(ToDelete))
    /\ LET gone == SqlDeleteAll(tx, ToDelete, file_cache_key)
           stmt == IF ToDelete = {} THEN <<>>
                   ELSE <<Event("DELETE", ToDelete, <<>>,
                                BagCardinality(tx) - BagCardinality(gone), TRUE)>>
           rpc  == IF Sent(Cardinality(ToDelete))
                     THEN <<Event("delete_points", ToDelete, <<>>, 0, outcome = "ok")>>
                     ELSE <<>>
       IN  CASE outcome = "ok" ->
                  /\ tx' = gone
                  /\ points' = DeletePoints(points, ToDelete)
                  /\ frame' = [frame EXCEPT !.delete_size = Cardinality(ToDelete)]
                  /\ log' = log \o stmt \o rpc
                  /\ pc' = AfterPhase("B")
                  /\ UNCHANGED <<db, result>>
             [] outcome = "rpc" ->
                  /\ log' = log \o stmt \o rpc
                  /\ Abort
                  /\ UNCHANGED <<points, frame>>
             [] outcome = "sql" ->
                  /\ Abort
                  /\ UNCHANGED <<points, frame, log>>
    /\ UNCHANGED <<reporef, file_cache_key, cache, update, new, new_sql,
                   embeds, call, db0, loaded, hist, passes, nobs, indexVars, concVars, fileVars>>

\* commit_inserts: both lists are taken, the pairs are INSERTed, then one
\* upsert_points unless the point list is empty.
CommitInserts(outcome) ==
    /\ pc = "C"
    /\ outcome = "sql" => new_sql # <<>>
    /\ outcome = "rpc" => Sent(Len(new))
    /\ LET put  == SqlInsertAll(tx, new_sql, file_cache_key, reporef)
           stmt == IF new_sql = <<>> THEN <<>>
                   ELSE <<Event("INSERT", [i \in DOMAIN new_sql |-> new_sql[i][1]], <<>>,
                                BagCardinality(put) - BagCardinality(tx), TRUE)>>
           rpc  == IF Sent(Len(new))
                     THEN <<Event("upsert_points", [i \in DOMAIN new |-> new[i].id], <<>>,
                                  0, outcome = "ok")>>
                     ELSE <<>>
       IN  CASE outcome = "ok" ->
                  /\ tx' = put
                  /\ points' = Upsert(points, new)
                  /\ frame' = [frame EXCEPT !.new_size = Len(new)]
                  /\ log' = log \o stmt \o rpc
                  /\ pc' = AfterPhase("C")
                  /\ UNCHANGED <<db, result>>
             [] outcome = "rpc" ->
                  /\ log' = log \o stmt \o rpc
                  /\ Abort
                  /\ UNCHANGED <<points, frame>>
             [] outcome = "sql" ->
                  /\ Abort
                  /\ UNCHANGED <<points, frame, log>>
    /\ new' = <<>> /\ new_sql' = <<>>
    /\ UNCHANGED <<reporef, file_cache_key, cache, update,
                   embeds, call, db0, loaded, hist, passes, nobs, indexVars, concVars, fileVars>>

\* tx.commit(), and the triple handed back.
Returned(new_size, update_size, delete_size) == <<"ok", new_size, update_size, delete_size>>

TxCommit(ok) ==
    /\ pc = "T"
    /\ IF ok
         THEN /\ db' = tx
              /\ tx' = EmptyBag
              /\ pc' = "done"
              /\ result' = Returned(frame.new_size, frame.update_size, frame.delete_size)
              /\ log' = Append(log, Event("COMMIT", <<>>, <<>>, 0, TRUE))
         ELSE Abort /\ UNCHANGED log
    /\ UNCHANGED <<points, reporef, file_cache_key, cache, update, new, new_sql, frame,
                   embeds, call, db0, loaded, hist, passes, nobs, indexVars, concVars, fileVars>>

\* ------------------------------------------------------ index_repository
\* worker: blake3 over SCHEMA_VERSION followed by the bytes read.
content_hash(buffer) == <<"blake3", SCHEMA_VERSION, buffer>>

\* file_disk_path.strip_prefix(repo_disk_path)
StripPrefixOk(p) == p # "x"

\* doc!(...): the fields the cache protocol reads back.
Doc(p, buffer) == [file_disk_path |-> p, content |-> buffer]

\* repo.open_file_cache: the saved entries, every cell stale.
open_file_cache(stored) == [p \in DOMAIN stored |-> stale(stored[p])]

\* repo.save_file_cache: the snapshot's keys and values.
save_file_cache(snapshot) == [p \in DOMAIN snapshot |-> snapshot[p].value]

\* writer.delete_term(file_disk_path, k): every document written under k.
delete_term(docs, k) == Restrict(docs, {d \in DOMAIN docs : d.file_disk_path # k})

RECURSIVE DeleteTerms(_, _)
DeleteTerms(docs, ks) ==
    IF ks = {} THEN docs
    ELSE LET k == CHOOSE x \in ks : TRUE
         IN  DeleteTerms(delete_term(docs, k), ks \ {k})

InitIndex ==
    /\ disk = Empty /\ file_cache = Empty /\ index = EmptyBag /\ saved = Empty
    /\ ipc = "idle" /\ todo = {} /\ writing = {} /\ snap0 = Empty /\ seen = Empty
    /\ added = EmptyBag /\ deleted = {} /\ errs = {} /\ iresult = "none" /\ ipasses = 0
    /\ ioerr = "none"

\* The working copy changes between passes.
WriteFile(p, c) ==
    /\ ipc = "idle"
    /\ ipasses < MaxIndexPasses
    /\ IF p \in DOMAIN disk THEN disk[p] # c ELSE TRUE
    /\ disk' = Put(disk, p, c)
    /\ UNCHANGED <<file_cache, index, saved, ipc, todo, writing, snap0, seen, added,
                   deleted, errs, iresult, ioerr, ipasses, chunkVars, concVars, fileVars>>

RemoveFile(p) ==
    /\ ipc = "idle"
    /\ ipasses < MaxIndexPasses
    /\ p \in DOMAIN disk
    /\ disk' = [x \in DOMAIN disk \ {p} |-> disk[x]]
    /\ UNCHANGED <<file_cache, index, saved, ipc, todo, writing, snap0, seen, added,
                   deleted, errs, iresult, ioerr, ipasses, chunkVars, concVars, fileVars>>

\* What index_repository returns: the `?` on open_file_cache and on
\* save_file_cache are its only early returns; the Err of a worker is logged
\* by the closure of the parallel loop and dropped.
ReturnsWorkerErr(worker_errs, io_ok) == IF io_ok /\ worker_errs = {} THEN "ok" ELSE "err"

Returns(worker_errs, io_ok) == IF io_ok THEN "ok" ELSE "err"

\* index_repository up to the parallel loop: the file cache is opened (`?`) and
\* the walker is collected.
OpenAndWalk(open_ok) ==
    /\ ipc = "idle"
    /\ ipasses < MaxIndexPasses
    /\ ipasses' = ipasses + 1
    /\ seen' = Empty /\ added' = EmptyBag /\ deleted' = {} /\ errs' = {}
    /\ writing' = {}
    /\ IF open_ok
         THEN /\ file_cache' = open_file_cache(saved)
              /\ snap0' = open_file_cache(saved)
              /\ todo' = DOMAIN disk
              /\ ipc' = "walk"
              /\ iresult' = "none"
              /\ ioerr' = "none"
         ELSE /\ file_cache' = Empty /\ snap0' = Empty /\ todo' = {}
              /\ ipc' = "idle"
              /\ iresult' = Returns({}, FALSE)
              /\ ioerr' = "open_file_cache"
    /\ UNCHANGED <<disk, index, saved, chunkVars, concVars, fileVars>>

\* Entry::Occupied(val) if val.get().value == content_hash
UpToDateNever(snapshot, p, hash) == FALSE

UpToDate(snapshot, p, hash) == p \in DOMAIN snapshot /\ snapshot[p].value = hash

\* Err(err) of read_to_string => { debug!(..); return Ok(()) }: the worker
\* leaves before it reaches the cache.
AfterFailedReadKeeps(snapshot, p) ==
    IF p \in DOMAIN snapshot THEN [snapshot EXCEPT ![p].fresh = TRUE] ELSE snapshot

AfterFailedRead(snapshot, p) == snapshot

\* worker, from the read to the match on the cache entry.
WorkerEntry(p, read_ok) ==
    /\ ipc = "walk"
    /\ p \in todo
    /\ todo' = todo \ {p}
    /\ IF ~read_ok
         THEN /\ file_cache' = AfterFailedRead(file_cache, p)
              /\ UNCHANGED <<writing, seen, errs>>
         ELSE IF ~StripPrefixOk(p)
         THEN /\ errs' = errs \cup {p}
              /\ UNCHANGED <<file_cache, writing, seen>>
         ELSE /\ seen' = Put(seen, p, disk[p])
              /\ UNCHANGED errs
              /\ IF UpToDate(file_cache, p, content_hash(disk[p]))
                   THEN /\ file_cache' = [file_cache EXCEPT ![p].fresh = TRUE]
                        /\ UNCHANGED writing
                   ELSE /\ file_cache' = Put(file_cache, p, fresh_from(content_hash(disk[p])))
                        /\ writing' = writing \cup {p}
    /\ UNCHANGED <<disk, index, saved, ipc, snap0, added, deleted, iresult, ioerr,
                   ipasses,
                   chunkVars, concVars, fileVars>>

\* worker, from the symbols to add_document: the document is written, or
\* serialising the symbol locations or the writer fails.
WorkerWrite(p, write_ok) ==
    /\ ipc = "walk"
    /\ p \in writing
    /\ writing' = writing \ {p}
    /\ IF write_ok
         THEN /\ index' = index (+) SetToBag({Doc(p, seen[p])})
              /\ added' = added (+) SetToBag({p})
              /\ UNCHANGED errs
         ELSE /\ errs' = errs \cup {p}
              /\ UNCHANGED <<index, added>>
    /\ UNCHANGED <<disk, file_cache, saved, ipc, todo, snap0, seen, deleted, iresult,
                   ioerr, ipasses, chunkVars, concVars, fileVars>>

\* par_iter().for_each(..) returns once every worker has: no walked file is
\* left to take and no worker is between its cache entry and add_document.
JoinedEarly == todo = {}

Joined == todo = {} /\ writing = {}

\* file_cache.retain(..), once every worker has returned.
StaleInverted(snapshot) == {k \in DOMAIN snapshot : snapshot[k].fresh}

Stale(snapshot) == {k \in DOMAIN snapshot : ~snapshot[k].fresh}

Sweep ==
    /\ ipc = "walk"
    /\ Joined
    /\ deleted' = Stale(file_cache)
    /\ index' = DeleteTerms(index, Stale(file_cache))
    /\ file_cache' = [k \in DOMAIN file_cache \ Stale(file_cache) |-> file_cache[k]]
    /\ ipc' = "save"
    /\ UNCHANGED <<disk, saved, todo, writing, snap0, seen, added, errs, iresult,
                   ioerr, ipasses, chunkVars, concVars, fileVars>>

\* repo.save_file_cache(..)?; Ok(())
Save(save_ok) ==
    /\ ipc = "save"
    /\ saved' = IF save_ok THEN save_file_cache(file_cache) ELSE saved
    /\ iresult' = Returns(errs, save_ok)
    /\ ioerr' = IF save_ok THEN "none" ELSE "save_file_cache"
    /\ ipc' = "idle"
    /\ UNCHANGED <<disk, file_cache, index, todo, writing, snap0, seen, added, deleted,
                   errs, ipasses, chunkVars, concVars, fileVars>>

NextIndex ==
    \/ \E p \in Paths, c \in Contents : WriteFile(p, c)
    \/ \E p \in Paths : RemoveFile(p)
    \/ \E open_ok \in BOOLEAN : OpenAndWalk(open_ok)
    \/ \E p \in Paths, read_ok \in BOOLEAN : WorkerEntry(p, read_ok)
    \/ \E p \in Paths, write_ok \in BOOLEAN : WorkerWrite(p, write_ok)
    \/ Sweep
    \/ \E save_ok \in BOOLEAN : Save(save_ok)

\* ------------------------------------- update_or_embed, thread by thread
\* The callers of update_or_embed on one ChunkCache (the cache is shared by
\* reference between the threads that chunk one file).
Threads == {"t1", "t2", "t3"}

NoThread == [at |-> "idle", id |-> <<>>, bh |-> <<>>, branches |-> <<>>,
             embed_ok |-> TRUE, arm |-> "none", ret |-> "none"]

InitThreads == thr = [t \in Threads |-> NoThread]

\* A cache as for_file leaves it, over a table that holds one chunk of the
\* file or none.
InitConc ==
    /\ db \in {EmptyBag,
               SetToBag({Row(cache_key("f1", "d2"), "f1", branches_hash(<<"main">>), "r1")})}
    /\ points = [p \in {r.chunk_hash : r \in DOMAIN db} |-> <<"main">>]
    /\ reporef = "r1" /\ file_cache_key = "f1"
    /\ cache \in LoadChoices(Flatten(TRUE, SelectForFile(db, "f1")))
    /\ update = Empty /\ new = <<>> /\ new_sql = <<>>
    /\ pc = "open" /\ tx = EmptyBag /\ frame = NoFrame /\ result = <<"none">>
    /\ log = <<>> /\ embeds = <<>> /\ call = NoCall /\ db0 = db /\ loaded = TRUE
    /\ hist = NoHist /\ passes = 1 /\ nobs = 0

\* The places of a call at which the thread holds the entry of its id, and
\* those at which it holds the write lock of `new`.
HoldsEntry == {"occupied", "vacant", "sql", "embed", "point", "insert"}
HoldsNew == {"embed", "point"}

\* self.cache.entry(id) returns once no other thread holds the entry of id.
EntryFreeAlways(t, id) == TRUE

EntryFree(t, id) ==
    \A u \in Threads \ {t} : ~(thr[u].at \in HoldsEntry /\ thr[u].id = id)

\* self.new.write()
NewFree(t) == \A u \in Threads \ {t} : thr[u].at \notin HoldsNew

\* update_or_embed is entered: the id and the branches hash are computed.
Enter(t, data, branches, embed_ok) ==
    /\ thr[t].at = "idle"
    /\ thr' = [thr EXCEPT ![t] = [NoThread EXCEPT
                  !.at = "entry", !.id = cache_key(file_cache_key, data),
                  !.bh = branches_hash(branches), !.branches = branches,
                  !.embed_ok = embed_ok]]
    /\ UNCHANGED <<callerVars, cache, update, new, new_sql, embeds, indexVars, fileVars>>

\* match self.cache.entry(id)
TakeEntry(t) ==
    /\ thr[t].at = "entry"
    /\ EntryFree(t, thr[t].id)
    /\ LET arm == IF thr[t].id \in DOMAIN cache THEN "occupied" ELSE "vacant"
       IN  thr' = [thr EXCEPT ![t].at = arm, ![t].arm = arm]
    /\ UNCHANGED <<callerVars, cache, update, new, new_sql, embeds, indexVars, fileVars>>

\* The occupied arm, and the entry dropped.
OccupiedArm(t) ==
    /\ thr[t].at = "occupied"
    /\ Occupied(thr[t].id, thr[t].bh, thr[t].branches)
    /\ thr' = [thr EXCEPT ![t].at = "done", ![t].ret = "ok"]
    /\ UNCHANGED <<callerVars, indexVars, fileVars>>

\* self.new_sql.write().unwrap().push(..)
VacantPushSql(t) ==
    /\ thr[t].at = "vacant"
    /\ new_sql' = Append(new_sql, <<thr[t].id, thr[t].bh>>)
    /\ thr' = [thr EXCEPT ![t].at = "sql"]
    /\ UNCHANGED <<callerVars, cache, update, new, embeds, indexVars, fileVars>>

\* self.new.write().unwrap(): the receiver of push is taken before its argument.
VacantLockNew(t) ==
    /\ thr[t].at = "sql"
    /\ NewFree(t)
    /\ thr' = [thr EXCEPT ![t].at = "embed"]
    /\ UNCHANGED <<callerVars, cache, update, new, new_sql, embeds, indexVars, fileVars>>

\* embedder(data)?: on Err the guard and the vacant entry are dropped.
VacantEmbed(t) ==
    /\ thr[t].at = "embed"
    /\ embeds' = Append(embeds, thr[t].id)
    /\ thr' = IF thr[t].embed_ok
                THEN [thr EXCEPT ![t].at = "point"]
                ELSE [thr EXCEPT ![t].at = "done", ![t].ret = "err"]
    /\ UNCHANGED <<callerVars, cache, update, new, new_sql, indexVars, fileVars>>

\* .push(PointStruct { .. })
VacantPushNew(t) ==
    /\ thr[t].at = "point"
    /\ new' = Append(new, [id |-> thr[t].id, branches |-> thr[t].branches])
    /\ thr' = [thr EXCEPT ![t].at = "insert"]
    /\ UNCHANGED <<callerVars, cache, update, new_sql, embeds, indexVars, fileVars>>

\* vacant.insert_entry(branches_hash.into())
VacantInsert(t) ==
    /\ thr[t].at = "insert"
    /\ cache' = Put(cache, thr[t].id, fresh_from(thr[t].bh))
    /\ thr' = [thr EXCEPT ![t].at = "done", ![t].ret = "ok"]
    /\ UNCHANGED <<callerVars, update, new, new_sql, embeds, indexVars, fileVars>>

NextConc ==
    \/ \E t \in Threads, data \in Chunks, branches \in BranchLists, embed_ok \in BOOLEAN :
          Enter(t, data, branches, embed_ok)
    \/ \E t \in Threads : TakeEntry(t)
    \/ \E t \in Threads : OccupiedArm(t)
    \/ \E t \in Threads : VacantPushSql(t)
    \/ \E t \in Threads : VacantLockNew(t)
    \/ \E t \in Threads : VacantEmbed(t)
    \/ \E t \in Threads : VacantPushNew(t)
    \/ \E t \in Threads : VacantInsert(t)

\* -------------------------------------------------------------- FileCache
Hashes == {"h1", "h2"}

FileRow(repo, hash) == [repo_ref |-> repo, cache_hash |-> hash]

\* SELECT cache_hash FROM file_cache WHERE repo_ref = ?
SelectFiles(t, repo) == Restrict(t, {r \in DOMAIN t : r.repo_ref = repo})

\* output.insert(row.cache_hash, FreshValue::stale(())) for every row
Snapshot(rows) == [k \in {r.cache_hash : r \in DOMAIN rows} |-> stale(<<>>)]

\* DELETE FROM file_cache WHERE repo_ref = ?
DeleteFileRows(t, repo) == Restrict(t, {r \in DOMAIN t : r.repo_ref # repo})

\* DELETE FROM chunk_cache WHERE repo_ref = ?
DeleteChunkRowsOfAll(t, repo) == EmptyBag

DeleteChunkRows(t, repo) == Restrict(t, {r \in DOMAIN t : r.repo_ref # repo})

\* INSERT INTO file_cache (repo_ref, cache_hash) VALUES (?, ?)
InsertFileRow(t, repo, hash) == t (+) SetToBag({FileRow(repo, hash)})

\* The snapshots a pass hands to persist: the entries it kept, all fresh.
Snapshots == {[k \in S |-> fresh_from(<<>>)] : S \in SUBSET Hashes}

Tables(f, c) == [files |-> f, chunks |-> c]
NoTx == Tables(EmptyBag, EmptyBag)
NoFop == [name |-> "none", repo |-> "", at |-> "idle", snapshot |-> Empty,
          keys |-> {}, round |-> FALSE]
NoFret == [name |-> "none", repo |-> "", ret |-> "none", snapshot |-> Empty,
           sqlerr |-> FALSE, round |-> FALSE]

\* fret: the operation that returned, on which repo, what it returned, the
\* snapshot it returned or was given, whether a statement of it failed, and
\* whether it was a persist of the snapshot retrieve had just returned.
Fret(name, repo, ret, snapshot, sqlerr, round) ==
    [name |-> name, repo |-> repo, ret |-> ret, snapshot |-> snapshot,
     sqlerr |-> sqlerr, round |-> round]

InitFileCache ==
    /\ files = EmptyBag /\ ftx = NoTx /\ fop = NoFop /\ fret = NoFret
    /\ f0 = Tables(EmptyBag, EmptyBag) /\ fops = 0

\* The two tables with rows of both repositories, or empty.
InitFile ==
    /\ InitFileCache
    /\ db \in {EmptyBag,
               SetToBag({Row(cache_key("f1", "d1"), "f1", branches_hash(<<"main">>), "r1"),
                         Row(cache_key("f1", "d2"), "f1", branches_hash(<<"main">>), "r2")})}
    /\ points = [p \in {r.chunk_hash : r \in DOMAIN db} |-> <<"main">>]
    /\ InitNoCache

\* FileCache::retrieve: the query, and the snapshot built from what it gave.
Retrieve(repo, query_ok) ==
    /\ fop.name = "none"
    /\ fops < MaxFileOps
    /\ fret' = Fret("retrieve", repo, "ok",
                    Snapshot(Flatten(query_ok, SelectFiles(files, repo))), ~query_ok, FALSE)
    /\ f0' = Tables(files, db)
    /\ fops' = fops + 1
    /\ UNCHANGED <<files, ftx, fop, chunkVars, indexVars, concVars>>

\* An early return of persist or delete: the transaction is dropped.
FileAbort ==
    /\ files' = RolledBack(files, ftx.files)
    /\ db' = RolledBack(db, ftx.chunks)
    /\ ftx' = NoTx
    /\ fret' = Fret(fop.name, fop.repo, "err", fop.snapshot, TRUE, fop.round)
    /\ fop' = NoFop

\* self.db.begin() of persist(cache); round says cache is the snapshot the
\* retrieve just before returned, unmodified.
PersistBegin(repo, snapshot, round, ok) ==
    /\ fop.name = "none"
    /\ fops < MaxFileOps
    /\ round => (fret.name = "retrieve" /\ fret.repo = repo /\ snapshot = fret.snapshot)
    /\ f0' = Tables(files, db)
    /\ fops' = fops + 1
    /\ IF ok
         THEN /\ ftx' = Tables(files, db)
              /\ fop' = [NoFop EXCEPT !.name = "persist", !.repo = repo,
                            !.at = "delete_files", !.snapshot = snapshot,
                            !.keys = DOMAIN snapshot, !.round = round]
              /\ UNCHANGED fret
         ELSE /\ fret' = Fret("persist", repo, "err", snapshot, TRUE, round)
              /\ UNCHANGED <<ftx, fop>>
    /\ UNCHANGED <<files, chunkVars, indexVars, concVars>>

\* self.delete_files(&mut tx), of persist and of delete
DeleteFiles(ok) ==
    /\ fop.at = "delete_files"
    /\ IF ok
         THEN /\ ftx' = [ftx EXCEPT !.files = DeleteFileRows(@, fop.repo)]
              /\ fop' = [fop EXCEPT
                    !.at = IF fop.name = "persist" THEN "insert" ELSE "delete_chunks"]
              /\ UNCHANGED <<files, db, fret>>
         ELSE FileAbort
    /\ UNCHANGED <<f0, fops, chunkRest, indexVars, concVars>>

\* persist, one turn of the loop over the keys scanned from the snapshot
PersistInsert(k, ok) ==
    /\ fop.at = "insert"
    /\ k \in fop.keys
    /\ IF ok
         THEN /\ ftx' = [ftx EXCEPT !.files = InsertFileRow(@, fop.repo, k)]
              /\ fop' = [fop EXCEPT !.keys = @ \ {k}]
              /\ UNCHANGED <<files, db, fret>>
         ELSE FileAbort
    /\ UNCHANGED <<f0, fops, chunkRest, indexVars, concVars>>

\* self.db.begin() of delete
DeleteBegin(repo, ok) ==
    /\ fop.name = "none"
    /\ fops < MaxFileOps
    /\ f0' = Tables(files, db)
    /\ fops' = fops + 1
    /\ IF ok
         THEN /\ ftx' = Tables(files, db)
              /\ fop' = [NoFop EXCEPT !.name = "delete", !.repo = repo,
                            !.at = "delete_files"]
              /\ UNCHANGED fret
         ELSE /\ fret' = Fret("delete", repo, "err", Empty, TRUE, FALSE)
              /\ UNCHANGED <<ftx, fop>>
    /\ UNCHANGED <<files, chunkVars, indexVars, concVars>>

\* self.delete_chunks(&mut tx)
DeleteChunks(ok) ==
    /\ fop.at = "delete_chunks"
    /\ IF ok
         THEN /\ ftx' = [ftx EXCEPT !.chunks = DeleteChunkRows(@, fop.repo)]
              /\ fop' = [fop EXCEPT !.at = "commit"]
              /\ UNCHANGED <<files, db, fret>>
         ELSE FileAbort
    /\ UNCHANGED <<f0, fops, chunkRest, indexVars, concVars>>

\* tx.commit() of persist, once every key is inserted, and of delete
FileCommit(ok) ==
    /\ \/ fop.at = "insert" /\ fop.keys = {}
       \/ fop.at = "commit"
    /\ IF ok
         THEN /\ files' = ftx.files
              /\ db' = ftx.chunks
              /\ ftx' = NoTx
              /\ fret' = Fret(fop.name, fop.repo, "ok", fop.snapshot, FALSE, fop.round)
              /\ fop' = NoFop
         ELSE FileAbort
    /\ UNCHANGED <<f0, fops, chunkRest, indexVars, concVars>>

NextFile ==
    \/ \E repo \in Repos, query_ok \in BOOLEAN : Retrieve(repo, query_ok)
    \/ \E repo \in Repos, snapshot \in Snapshots, ok \in BOOLEAN :
          PersistBegin(repo, snapshot, FALSE, ok)
    \/ \E repo \in Repos, ok \in BOOLEAN : PersistBegin(repo, fret.snapshot, TRUE, ok)
    \/ \E ok \in BOOLEAN : DeleteFiles(ok)
    \/ \E k \in Hashes, ok \in BOOLEAN : PersistInsert(k, ok)
    \/ \E repo \in Repos, ok \in BOOLEAN : DeleteBegin(repo, ok)
    \/ \E ok \in BOOLEAN : DeleteChunks(ok)
    \/ \E ok \in BOOLEAN : FileCommit(ok)

Init == InitChunk /\ InitIndex /\ InitThreads /\ InitFileCache

\* Repositories are interchangeable, and so are chunks: the first cache built
\* is taken to be of "r1" and the first chunk observed to be "d1".
Next ==
    \/ \E repo \in (IF passes = 0 THEN {"r1"} ELSE Repos), fk \in FileKeys,
          query_ok \in BOOLEAN : ForFile(repo, fk, query_ok)
    \/ \E data \in (IF nobs = 0 THEN {"d1"} ELSE Chunks), branches \in BranchLists,
          embed_ok \in BOOLEAN : UpdateOrEmbed(data, branches, embed_ok)
    \/ \E ok \in BOOLEAN : CommitBegin(ok)
    \/ \E k \in DOMAIN update, ok \in BOOLEAN : BranchUpdateSql(k, ok)
    \/ \E k \in DOMAIN update, ok \in BOOLEAN : SetPayloadRpc(k, ok)
    \/ JoinAll
    \/ \E outcome \in {"ok", "sql", "rpc"} : CommitDeletes(outcome)
    \/ \E outcome \in {"ok", "sql", "rpc"} : CommitInserts(outcome)
    \/ \E ok \in BOOLEAN : TxCommit(ok)

Spec == Init /\ [][Next]_vars

SpecIndex == Init /\ [][NextIndex]_vars

\* Threads inside update_or_embed on one ChunkCache.
StartConc ==
    /\ InitConc
    /\ InitIndex
    /\ InitThreads
    /\ InitFileCache

SpecConc == StartConc /\ [][NextConc]_vars

\* FileCache operations, one after the other, on the two tables.
StartFile ==
    /\ InitFile
    /\ InitIndex
    /\ InitThreads

SpecFile == StartFile /\ [][NextFile]_vars

\* ======================================================================
\* Properties of the chunk cache (Spec)
\* ======================================================================
RECURSIVE Rows(_, _)
\* The rows the statements `op` of the log report as affected, summed.
Rows(events, op) ==
    IF events = <<>> THEN 0
    ELSE (IF Head(events).op = op THEN Head(events).n ELSE 0) + Rows(Tail(events), op)

Ops(events) == {events[i].op : i \in DOMAIN events}
PendingInserts == {new_sql[i][1] : i \in DOMAIN new_sql} \cup {new[i].id : i \in DOMAIN new}
InBuckets == UNION {Range(update[k]) : k \in DOMAIN update}
ObserveStep == nobs' = nobs + 1
Committed == pc = "done" /\ result[1] = "ok"
Failed == pc = "done" /\ result = <<"err">>

\* C1: an update_or_embed for an id absent from the map whose embedder fails
\* returns the error and leaves the map, new_sql and new as they were.
C1_EmbedderErrorLeavesCacheUnchanged ==
    [][(ObserveStep /\ call'.id \notin DOMAIN cache /\ ~call'.embed_ok)
         => (call'.ret = "err" /\ cache' = cache /\ new_sql' = new_sql /\ new' = new)]_vars

\* C2: a commit that returns an error, whatever the phase it failed in,
\* leaves chunk_cache as it was when commit was called (the table does not
\* change between for_file and commit).
C2_FailedCommitLeavesTable == Failed => db = db0

\* C2 witness: a commit failed after statements of its transaction had changed rows.
C2_Witness ==
    /\ Failed
    /\ \E i \in DOMAIN log : log[i].op \in {"UPDATE", "DELETE", "INSERT"} /\ log[i].n > 0

\* C3: the writes of one commit are ordered by phase, branch updates before
\* deletions before inserts, and the transaction is committed last, only
\* after every vector-store call of the commit has returned Ok.
Phase(op) ==
    CASE op \in {"UPDATE", "set_payload"} -> 1
      [] op \in {"DELETE", "delete_points"} -> 2
      [] op \in {"INSERT", "upsert_points"} -> 3
      [] op = "COMMIT" -> 4

C3_PhasesOrdered ==
    /\ \A i, j \in DOMAIN log : i < j => Phase(log[i].op) <= Phase(log[j].op)
    /\ \A i, j \in DOMAIN log : log[j].op = "COMMIT" => (i <= j /\ log[i].ok)

\* C3 witness: a committed commit that updated branches of one chunk and
\* deleted another, in both stores.
C3_Witness ==
    /\ Committed
    /\ {"UPDATE", "set_payload", "DELETE", "delete_points", "COMMIT"} \subseteq Ops(log)

\* C7: a hit whose stored branches hash differs runs no embedder, enqueues no
\* insert, files the id under the bucket of (payload.branches, new hash) and
\* leaves the cell fresh with the new hash; a commit whose only observed
\* change this is reports (0, 1, 0), sends one set_payload with that branches
\* list and nothing else to the vector store, and leaves the id's row with
\* the new hash.
OnlyBranchChange(k) ==
    /\ DOMAIN update = {k}
    /\ Len(update[k]) = 1
    /\ embeds = <<>>
    /\ ToDelete = {}

C7_BranchChangeStep ==
    LET id == call'.id
        bh == branches_hash(call'.branches)
        k  == <<call'.branches, bh>>
    IN  (ObserveStep /\ id \in DOMAIN cache /\ cache[id].value # bh)
          => /\ embeds' = embeds /\ new' = new /\ new_sql' = new_sql
             /\ call'.ret = "ok"
             /\ DOMAIN update' = DOMAIN update \cup {k}
             /\ update'[k] = Append(IF k \in DOMAIN update THEN update[k] ELSE <<>>, id)
             /\ \A o \in DOMAIN update \ {k} : update'[o] = update[o]
             /\ cache' = Put(cache, id, [fresh |-> TRUE, value |-> bh])

C7_BranchChangeCommit ==
    \A k \in DOMAIN update :
        (Committed /\ OnlyBranchChange(k))
          => /\ result = <<"ok", 0, 1, 0>>
             /\ Ops(log) = {"UPDATE", "set_payload", "COMMIT"}
             /\ Cardinality({i \in DOMAIN log : log[i].op = "set_payload"}) = 1
             /\ \A i \in DOMAIN log : log[i].op = "set_payload"
                   => log[i].branches = k[1] /\ log[i].ids = update[k] /\ log[i].ok
             /\ \E r \in DOMAIN db : r.chunk_hash = update[k][1]
             /\ \A r \in DOMAIN db : r.chunk_hash = update[k][1] => r.branches = k[2]

C7_BranchChange == [][C7_BranchChangeStep]_vars /\ []C7_BranchChangeCommit

\* C7 witness: such a commit has returned.
C7_Witness == Committed /\ \E k \in DOMAIN update : OnlyBranchChange(k)

\* C8: the triple of a successful commit is (rows inserted, rows whose
\* branches were updated, rows deleted).
C8_TripleCountsRows ==
    Committed => /\ result[2] = Rows(log, "INSERT")
                 /\ result[3] = Rows(log, "UPDATE")
                 /\ result[4] = Rows(log, "DELETE")

\* C9: once a chunk is stored with branches B (its point carries B and a row
\* of the file carries the hash of B), a cache whose construction query
\* returned the rows takes the first observe of the chunk with branches B as
\* a plain hit: no embedder run, no insert and no branch update enqueued.
StoredWith(id, branches) ==
    /\ id \in DOMAIN points
    /\ points[id] = branches
    /\ \E r \in DOMAIN db : /\ r.chunk_hash = id /\ r.file_hash = file_cache_key
                            /\ r.branches = branches_hash(branches)

NotYetObserved(id) ==
    /\ id \in DOMAIN cache => ~cache[id].fresh
    /\ id \notin Range(embeds)

C9_UnchangedChunkIsNoWork ==
    [][(ObserveStep /\ loaded /\ StoredWith(call'.id, call'.branches)
          /\ NotYetObserved(call'.id))
         => (embeds' = embeds /\ new_sql' = new_sql /\ new' = new /\ update' = update)]_vars

\* C10: no chunk id is both pending insert and filed in a branch_updates
\* bucket of the same cache.
C10_InsertsAndUpdatesDisjoint == PendingInserts \cap InBuckets = {}

\* C11: after a successful commit, every row of the file whose id has a
\* vector point carries the hash of that point's branches list, whatever was
\* observed and in whatever order the set_payload calls completed.  Stated
\* for a cache built over agreeing stores, from the rows, none of whose
\* embedder calls failed.
CleanPass == hist.agree0 /\ loaded /\ Committed /\ result[2] = Len(embeds)

C11_PointBranchesMirrorRow ==
    CleanPass
      => \A r \in DOMAIN db :
            (r.file_hash = file_cache_key /\ r.chunk_hash \in DOMAIN points)
              => branches_hash(points[r.chunk_hash]) = r.branches

\* C12: from stores that agree, a commit that succeeds leaves the same ids in
\* chunk_cache and in the vector store: no row without a point, no point
\* without a row.
C12_SameIdsInBothStores ==
    (hist.agree0 /\ Committed) => {r.chunk_hash : r \in DOMAIN db} = DOMAIN points

\* C13: when the commit before this one failed after a vector-store call of
\* its own had been applied, a cache then built from the rolled-back rows,
\* shown the same chunks, whose observes and commit all succeed leaves the
\* two stores in agreement.
C13_NextPassRepairs ==
    (hist.prior /\ loaded /\ Committed /\ result[2] = Len(embeds)
       /\ Observed(cache) = hist.ids)
      => Agree(db, points)

\* C21: chunk_cache holds at most one row per (file_hash, chunk_hash),
\* whatever passes ran: also after an observe whose embedder failed and was
\* tried again in the same pass, and after a cache whose construction query
\* failed.
C21_OneRowPerChunk ==
    \A r \in DOMAIN db :
        BagCardinality(Restrict(db, {q \in DOMAIN db :
            q.file_hash = r.file_hash /\ q.chunk_hash = r.chunk_hash})) = 1

\* C24: a cache built for a repo loads rows of that repo only, and its commit
\* leaves the rows of every other repo as they were.
C24_OtherReposUntouched ==
    /\ (pc = "open" /\ loaded /\ hist.agree0)
         => DOMAIN cache \subseteq {r.chunk_hash : r \in {q \in DOMAIN db0 : q.repo_ref = reporef}}
                                   \cup Observed(cache)
    /\ (Committed /\ hist.agree0)
         => Restrict(db, {r \in DOMAIN db : r.repo_ref # reporef})
              = Restrict(db0, {r \in DOMAIN db0 : r.repo_ref # reporef})

\* C25: after a successful commit the rows of the file are the fresh cells of
\* the map: one row per fresh id, carrying the cell's value, and no row for
\* an id whose cell was stale.  Stated for a cache built over agreeing
\* stores, from the rows, none of whose embedder calls failed.
C25_RowsAreFreshCells ==
    CleanPass
      => LET mine == Restrict(db, {r \in DOMAIN db : r.file_hash = file_cache_key})
         IN  /\ \A p \in Observed(cache) :
                   /\ BagCardinality(Restrict(mine, {r \in DOMAIN mine : r.chunk_hash = p})) = 1
                   /\ \A r \in DOMAIN mine : r.chunk_hash = p => r.branches = cache[p].value
             /\ \A r \in DOMAIN mine : r.chunk_hash \in Observed(cache)

\* C20: no vector-store call of a commit carries an empty batch.
C20_NoEmptyBatch ==
    \A i \in DOMAIN log :
        /\ log[i].op \in {"upsert_points", "set_payload"} => Len(log[i].ids) > 0
        /\ log[i].op = "delete_points" => log[i].ids # {}

\* C20 witness: a commit has returned that had pairs to insert and no point to
\* send (the embedder failed), and one that had nothing to do at all.
C20_Witness ==
    /\ Committed
    /\ \/ "INSERT" \in Ops(log) /\ "upsert_points" \notin Ops(log)
       \/ Ops(log) = {"COMMIT"}

\* ======================================================================
\* Properties of index_repository (SpecIndex)
\* ======================================================================
Docs(p) == BagCardinality(Restrict(index, {d \in DOMAIN index : d.file_disk_path = p}))
\* The worker of p read the file and found the hash of the snapshot entry.
ReadUnchanged(p) ==
    p \in DOMAIN snap0 /\ p \in DOMAIN seen /\ content_hash(seen[p]) = snap0[p].value
\* The worker of p read the file and found another hash than the snapshot's.
ReadEdited(p) ==
    p \in DOMAIN snap0 /\ p \in DOMAIN seen /\ content_hash(seen[p]) # snap0[p].value

\* C4: a file read with the hash its snapshot entry was loaded with is only
\* marked fresh: no add_document for it, the entry keeps its hash, its worker
\* has no further step and no error, and the sweep issues no delete for it.
C4_UnchangedFileIsSkipped ==
    \A p \in Paths :
        ReadUnchanged(p)
          => /\ CopiesIn(p, added) = 0
             /\ p \notin writing /\ p \notin errs
             /\ p \in DOMAIN file_cache
             /\ file_cache[p] = [fresh |-> TRUE, value |-> snap0[p].value]
             /\ p \notin deleted

\* C4 witness: a pass that met such a file has swept and saved.
C4_Witness == ipc = "idle" /\ iresult = "ok" /\ \E p \in Paths : ReadUnchanged(p)

\* C5: for a file read with another hash than its snapshot entry's, the pass
\* writes one document and, after the sweep, one document of that path is
\* left in the index.
C5_EditedFileLeavesOneDocument ==
    \A p \in Paths :
        (ipc = "save" /\ ReadEdited(p) /\ p \notin errs)
          => (CopiesIn(p, added) = 1 /\ Docs(p) = 1)

\* C6: the sweep issues delete_term for the snapshot entries no worker
\* re-observed, and for no other path, and removes those entries and no
\* other; what is saved afterwards holds only files read in this pass, each
\* with the hash of the content read.
C6_SweepAndSave ==
    /\ ipc = "save"
         => /\ deleted = DOMAIN snap0 \ DOMAIN seen
            /\ DOMAIN file_cache = (DOMAIN snap0 \cup DOMAIN seen) \ deleted
            /\ \A p \in deleted : Docs(p) = 0
    /\ (ipc = "idle" /\ iresult = "ok")
         => /\ DOMAIN saved = DOMAIN seen
            /\ \A p \in DOMAIN saved : saved[p] = content_hash(seen[p])

\* C6 witness: a pass that swept a stale entry away and kept another has saved.
C6_Witness == ipc = "idle" /\ iresult = "ok" /\ deleted # {} /\ saved # Empty

\* C17: the failure of a worker stays with its file.  When the sweep has run,
\* every walked file was taken by a worker, and every file read without
\* error has its entry and, unless it was up to date, its document; the
\* sweep and the save run whatever the workers returned; index_repository
\* returns an error only when opening or saving the file cache failed.
C17_WorkerFailureIsContained ==
    /\ ipc = "save"
         => /\ todo = {} /\ writing = {}
            /\ \A p \in DOMAIN seen \ errs :
                  /\ p \in DOMAIN file_cache
                  /\ file_cache[p] = fresh_from(content_hash(disk[p]))
                  /\ ReadUnchanged(p) \/ CopiesIn(p, added) = 1
    /\ (ipc = "walk" /\ todo = {} /\ writing = {}) => ENABLED Sweep
    /\ ipc = "save" => ENABLED Save(TRUE)
    /\ (ipc = "idle" /\ iresult # "none") => (iresult = "err" <=> ioerr # "none")

\* C17 witness: a pass in which one worker returned an error wrote the
\* document of another file, swept, saved and returned Ok.
C17_Witness ==
    /\ ipc = "idle" /\ iresult = "ok" /\ errs # {}
    /\ \E p \in DOMAIN seen \ errs : CopiesIn(p, added) = 1

\* C19: what a pass leaves depends on the working copy, the snapshot it
\* started from and the calls that failed, not on the order of the workers:
\* the sweep starts with no worker running, and the entries kept, the
\* documents added, the paths deleted and the file cache saved are these.
C19_OutcomeIsOrderFree ==
    /\ ipc = "save"
         => /\ todo = {} /\ writing = {}
            /\ file_cache = [p \in DOMAIN seen |-> fresh_from(content_hash(disk[p]))]
            /\ added = SetToBag({p \in DOMAIN seen : ~ReadUnchanged(p) /\ p \notin errs})
            /\ deleted = DOMAIN snap0 \ DOMAIN seen
    /\ (ipc = "idle" /\ iresult = "ok")
         => saved = [p \in DOMAIN seen |-> content_hash(seen[p])]

\* C19 witness: a pass over two files, one of them known to the snapshot,
\* has swept.
C19_Witness ==
    /\ ipc = "save" /\ Cardinality(DOMAIN seen) >= 2
    /\ DOMAIN snap0 \cap DOMAIN seen # {}
    /\ added # EmptyBag

\* C22: when a pass has returned Ok, every entry of the saved file cache has
\* a document of its path in the full-text index whose content hashes to the
\* entry's hash.
C22_KeptEntriesHaveDocument ==
    (ipc = "idle" /\ iresult = "ok")
      => \A p \in DOMAIN saved :
            \E d \in DOMAIN index :
                d.file_disk_path = p /\ content_hash(d.content) = saved[p]

\* C23: a file of the working copy whose read failed in the running pass: its
\* worker has returned, without reading, without error.
FailedRead(p) ==
    /\ ipc \in {"walk", "save"}
    /\ p \in DOMAIN disk /\ p \notin todo
    /\ p \notin DOMAIN seen /\ p \notin errs

\* C23: such a file is treated as a deleted one: until the sweep its entry is
\* the stale one that was loaded (none if none was) and no document is added
\* for it; the sweep issues delete_term for its path and drops the entry;
\* the file cache then saved has no entry for it.
C23_FailedReadUntilSweep ==
    \A p \in Paths :
        FailedRead(p)
          => /\ CopiesIn(p, added) = 0 /\ p \notin writing
             /\ ipc = "walk"
                  => /\ p \in DOMAIN file_cache <=> p \in DOMAIN snap0
                     /\ p \in DOMAIN snap0 => file_cache[p] = snap0[p] /\ ~snap0[p].fresh
             /\ ipc = "save"
                  => /\ p \notin DOMAIN file_cache
                     /\ p \in DOMAIN snap0 => p \in deleted /\ Docs(p) = 0

C23_FailedReadSaved ==
    (ipc = "save" /\ ipc' = "idle" /\ iresult' = "ok")
      => \A p \in Paths : FailedRead(p) => p \notin DOMAIN saved'

C23_FailedReadIsDeletion == [][C23_FailedReadSaved]_vars /\ []C23_FailedReadUntilSweep

\* C23 witness: the sweep has deleted a file that is in the working copy and
\* in the loaded snapshot, and whose read failed.
C23_Witness ==
    ipc = "save" /\ \E p \in Paths : FailedRead(p) /\ p \in DOMAIN snap0 /\ p \in deleted

\* ======================================================================
\* Properties of concurrent update_or_embed calls (SpecConc)
\* ======================================================================
Callers(id) == {t \in Threads : thr[t].at # "idle" /\ thr[t].id = id}
Misses(id) == {t \in Callers(id) : thr[t].arm = "vacant"}
Times(s, id) == Cardinality({i \in DOMAIN s : s[i] = id})
SqlIds == [i \in DOMAIN new_sql |-> new_sql[i][1]]
NewIds == [i \in DOMAIN new |-> new[i].id]
\* The id was absent when the cache was built and every embedder offered for
\* it succeeds.
AbsentAndEmbeddable(id) ==
    /\ id \notin {r.chunk_hash : r \in DOMAIN db0}
    /\ \A t \in Callers(id) : thr[t].embed_ok

\* C18: in every interleaving of update_or_embed calls, of the threads that
\* observe one absent id with a succeeding embedder exactly one takes the
\* miss path: one embedder run, one pending relational insert and one pending
\* point for the id, the other calls being hits; and each pending list holds
\* one element per push made, none lost.
C18_EntryIsAtomic ==
    /\ \A data \in Chunks :
          LET id == cache_key(file_cache_key, data)
          IN  AbsentAndEmbeddable(id)
                => /\ Cardinality(Misses(id)) <= 1
                   /\ Times(embeds, id) <= 1
                   /\ Times(SqlIds, id) <= 1 /\ Times(NewIds, id) <= 1
                   /\ (Callers(id) # {} /\ \A t \in Callers(id) : thr[t].at = "done")
                        => /\ Cardinality(Misses(id)) = 1
                           /\ Times(embeds, id) = 1
                           /\ Times(SqlIds, id) = 1 /\ Times(NewIds, id) = 1
                           /\ \A t \in Callers(id) : thr[t].ret = "ok"
                           /\ id \in DOMAIN cache /\ cache[id].fresh
    /\ Len(new_sql) = Cardinality({t \in Threads : thr[t].arm = "vacant"
                                      /\ thr[t].at # "vacant"})
    /\ Len(new) = Cardinality({t \in Threads : thr[t].arm = "vacant"
                                  /\ (thr[t].at = "insert" \/ thr[t].ret = "ok")})

\* C18 witness: three threads have observed one absent chunk, embedders
\* succeeding, and all have returned.
C18_Witness ==
    \E data \in Chunks :
        LET id == cache_key(file_cache_key, data)
        IN  /\ AbsentAndEmbeddable(id)
            /\ Callers(id) = Threads
            /\ \A t \in Threads : thr[t].at = "done"

\* ======================================================================
\* Properties of the file cache (SpecFile)
\* ======================================================================
Returned1(name) == fop.name = "none" /\ fret.name = name
OfOthers(t, repo) == Restrict(t, {r \in DOMAIN t : r.repo_ref # repo})

\* C14: a persist that succeeds leaves as rows of the repo one row per key
\* of the snapshot and the rows of other repos as they were, so that
\* persisting the snapshot retrieve just returned leaves the same set of
\* rows; a persist that fails leaves the rows as they were.
C14_PersistReplacesRows ==
    Returned1("persist")
      => IF fret.ret = "ok"
           THEN /\ SelectFiles(files, fret.repo)
                      = SetToBag({FileRow(fret.repo, k) : k \in DOMAIN fret.snapshot})
                /\ OfOthers(files, fret.repo) = OfOthers(f0.files, fret.repo)
                /\ fret.round => DOMAIN files = DOMAIN f0.files
           ELSE files = f0.files

\* C15: a file-cache operation that met a relational error returns an error,
\* and the snapshot retrieve returns holds the hashes of the rows stored for
\* the repo.
C15_ErrorsPropagate ==
    (fop.name = "none" /\ fret.name # "none")
      => /\ (fret.name \in {"persist", "delete"} /\ fret.sqlerr) => fret.ret = "err"
         /\ (fret.name = "retrieve" /\ fret.ret = "ok")
               => DOMAIN fret.snapshot
                    = {r.cache_hash : r \in DOMAIN SelectFiles(files, fret.repo)}

\* C16: delete leaves no row of the repo in file_cache or chunk_cache and
\* the rows of other repos as they were; when a statement or the commit
\* fails both tables are as they were; while it runs the committed tables
\* are as they were.
C16_DeleteIsAtomic ==
    /\ Returned1("delete")
         => IF fret.ret = "ok"
              THEN /\ SelectFiles(files, fret.repo) = EmptyBag
                   /\ \A r \in DOMAIN db : r.repo_ref # fret.repo
                   /\ OfOthers(files, fret.repo) = OfOthers(f0.files, fret.repo)
                   /\ OfOthers(db, fret.repo) = OfOthers(f0.chunks, fret.repo)
              ELSE files = f0.files /\ db = f0.chunks
    /\ fop.name = "delete" => (files = f0.files /\ db = f0.chunks)

\* C16 witness: a delete has returned Ok on tables that held rows of the repo
\* and of another repo, both of them.
C16_Witness ==
    /\ Returned1("delete") /\ fret.ret = "ok"
    /\ SelectFiles(f0.files, fret.repo) # EmptyBag
    /\ \E r \in DOMAIN f0.chunks : r.repo_ref = fret.repo
    /\ files # EmptyBag /\ db # EmptyBag

====
